---- MODULE Spec2Model ----
(***************************************************************************)
(* A model of fibonacci-game.py: the Zeckendorf game on piles of Fibonacci *)
(* numbers (base sequence 1, 2, 3, 5, 8, ...).                             *)
(*                                                                         *)
(* A game state is a Python tuple of counts; here it is a sequence, so the *)
(* Python entry state[i] is the TLA+ entry state[i + 1].                   *)
(*                                                                         *)
(* The specifications share the variables:                                 *)
(*   Spec      the program: generate(n), strategize(graph), interact(n)    *)
(*   PlaySpec  every play of the game from (n,), one evolve move at a time *)
(*   RuleSpec  final and evolve applied to an arbitrary state              *)
(*   LiveSpec  Spec with the fairness of the sequential loop of generate   *)
(*   CodecSpec calls of fibonacci, fibonacci_index, show and parse, in any *)
(*             order, on the two caches they share                         *)
(***************************************************************************)
EXTENDS Integers, Sequences, FiniteSets, TLC

\* ---- bounds ----

\* largest starting value n
MaxN == 11
\* longest state and largest count that RuleSpec draws its input from
MaxLen == 3
MaxCount == 3
\* largest index fibonacci is called with in CodecSpec
MaxIndexArg == 5
\* largest value fibonacci_index is called with and a move text holds
MaxValue == 4
\* largest number of tokens of a move text
MaxTokens == 3

VARIABLES
    n,          \* the starting value (args.n)
    pc,         \* position in the program
    graph,      \* generate: dict state -> list of successors
    options,    \* generate: the stack of states still to expand
    strategy,   \* strategize: dict state -> list of good replies
    state,      \* interact: the state the human faces; PlaySpec/RuleSpec: the state
    move,       \* interact: the state the human moved to
    announced,  \* interact: "heads up, you're gonna lose!" was printed
    outcome,    \* interact: "none", "i win" or "i surrender"
    mark,       \* PlaySpec: a remembered state of the play, or <<>>
    moved,      \* PlaySpec: a move was made since the state was remembered
    succs,      \* RuleSpec: the list evolve(state) yielded
    isFinal,    \* RuleSpec: the value final(state) returned
    replies,    \* interact: the number of replies the program has made
    fibCache,   \* fibonacci_cache: the list "cache"
    indexCache, \* fibonacci_index_cache: the dict "cache"
    best,       \* fibonacci_index_cache: the greatest value in the dict
    op,         \* CodecSpec: the function called last
    arg,        \* CodecSpec: its argument
    result      \* CodecSpec: what it raised and what it returned

vars == <<n, pc, graph, options, strategy, state, move, announced, outcome,
          mark, moved, succs, isFinal, replies, fibCache, indexCache, best,
          op, arg, result>>

\* the variables of the two caches
caches == <<fibCache, indexCache, best>>

\* the variables of a call in CodecSpec
codec == <<op, arg, result>>

\* ---- helpers ----

Range(s) == {s[k] : k \in 1..Len(s)}

Min(a, b) == IF a <= b THEN a ELSE b

\* ---- the base sequence ----

RECURSIVE fibonacci(_)
fibonacci(i) ==
    IF i = 0 THEN 1
    ELSE IF i = 1 THEN 2
    ELSE fibonacci(i - 1) + fibonacci(i - 2)


\* ---- the two caches ----

\* "while n >= len(cache): cache.append(cache[-1] + cache[-2])"
RECURSIVE FibExtend(_, _)
FibExtend(fc, k) ==
    IF k >= Len(fc)
    THEN FibExtend(Append(fc, fc[Len(fc)] + fc[Len(fc) - 1]), k)
    ELSE fc

\* the call fibonacci(k) on the cache fc: "return cache[n]" takes a negative
\* n from the end of the list and raises IndexError below -len(cache)
fibonacciCall(fc, k) ==
    LET fc2 == FibExtend(fc, k) IN
    IF k >= 0 THEN [raised |-> "none", value |-> fc2[k + 1], fib |-> fc2]
    ELSE IF k >= -Len(fc2)
    THEN [raised |-> "none", value |-> fc2[Len(fc2) + k + 1], fib |-> fc2]
    ELSE [raised |-> "IndexError", value |-> 0, fib |-> fc2]

\* the sum of "count * fibonacci(i)" from index i on, and the cache the
\* calls of fibonacci leave
RECURSIVE evaluateFrom(_, _, _)
evaluateFrom(fc, st, i) ==
    IF i >= Len(st) THEN [value |-> 0, fib |-> fc]
    ELSE LET r == fibonacciCall(fc, i)
             rest == evaluateFrom(r.fib, st, i + 1)
         IN  [value |-> st[i + 1] * r.value + rest.value, fib |-> rest.fib]

\* the call evaluate(st) on the cache fc
evaluate(fc, st) ==
    LET r == evaluateFrom(fc, st, 0) IN
    [raised |-> "none", value |-> r.value, fib |-> r.fib]

\* the value evaluate returns, which no cache state changes
Value(st) == evaluate(<<1, 2>>, st).value

\* "cache[best] = i"
SetItem(ic, key, val) ==
    [x \in DOMAIN ic \cup {key} |-> IF x = key THEN val ELSE ic[x]]

\* IndexLoop with "while best < n - 1"
RECURSIVE IndexLoopStopsEarly(_, _, _, _)
IndexLoopStopsEarly(fc, ic, b, v) ==
    IF b < v - 1
    THEN LET i == ic[b] + 1
             r == fibonacciCall(fc, i)
         IN  IndexLoopStopsEarly(r.fib, SetItem(ic, r.value, i), r.value, v)
    ELSE [fib |-> fc, index |-> ic, best |-> b]

\* "while best < n: i = cache[best] + 1; cache[best := fibonacci(i)] = i"
RECURSIVE IndexLoop(_, _, _, _)
IndexLoop(fc, ic, b, v) ==
    IF b < v
    THEN LET i == ic[b] + 1
             r == fibonacciCall(fc, i)
         IN  IndexLoop(r.fib, SetItem(ic, r.value, i), r.value, v)
    ELSE [fib |-> fc, index |-> ic, best |-> b]

\* the call fibonacci_index(v) on the caches c: "return cache.get(n, -1)"
indexCall(c, v) ==
    LET r == IndexLoop(c.fib, c.index, c.best, v) IN
    [raised |-> "none",
     value |-> IF v \in DOMAIN r.index THEN r.index[v] ELSE -1,
     fib |-> r.fib, index |-> r.index, best |-> r.best]

\* ---- the terminal test ----

\* final without "last = count": only the counts above 1 are seen
finalNoLast(st) == \A k \in 1..Len(st) : ~(st[k] > 1)

\* the loop returns False at the first count with count > 1 or (count and last),
\* where last is the previous count (0 before the first)
final(st) ==
    \A k \in 1..Len(st) :
        LET count == st[k]
            last == IF k = 1 THEN 0 ELSE st[k - 1]
        IN  ~(count > 1 \/ (count # 0 /\ last # 0))

\* ---- the rule engine ----

\* AddOne with "new.append(0)": the extended entry is left at zero
AddOneAppendZero(new, j) ==
    IF j = Len(new) THEN Append(new, 0) ELSE [new EXCEPT ![j + 1] = @ + 1]

\* "if j == len(new): new.append(1) else: new[j] += 1"
AddOne(new, j) ==
    IF j = Len(new) THEN Append(new, 1) ELSE [new EXCEPT ![j + 1] = @ + 1]

\* 1+1=2 rule
CarryUp(st) == AddOne([st EXCEPT ![1] = @ - 2], 1)

\* ReSplit written as the inverse of the 1+1=2 rule: 2 = 1+1
ReSplitUncarry(st) == [st EXCEPT ![2] = @ - 1, ![1] = @ + 2]

\* ReSplit without "new[0] += 1": 2+2 gives 3 alone
ReSplitNoLow(st) ==
    IF Len(st) = 2 THEN Append([st EXCEPT ![2] = @ - 2], 1)
    ELSE [st EXCEPT ![2] = @ - 2, ![3] = @ + 1]

\* 2+2=1+3 rule
ReSplit(st) == AddOne([st EXCEPT ![2] = @ - 2, ![1] = @ + 1], 2)

\* MergeDup with "new[i - 1] += 1" for "new[i - 2] += 1"
MergeDupWrongTarget(st, i) ==
    IF i + 1 = Len(st)
    THEN Append([st EXCEPT ![i + 1] = @ - 2, ![i] = @ + 1], 1)
    ELSE [st EXCEPT ![i + 1] = @ - 2, ![i] = @ + 1, ![i + 2] = @ + 1]

\* merge duplicates rule at index i >= 2
MergeDup(st, i) == AddOne([st EXCEPT ![i + 1] = @ - 2, ![i - 1] = @ + 1], i + 1)

\* MergeCons with "new[i + 1] += 1" for "new[i + 2] += 1": the merged unit
\* lands on the upper of the two indices
MergeConsLow(st, i) == [st EXCEPT ![i + 1] = @ - 1]

\* merge consecutives rule at index i
MergeCons(st, i) == AddOne([st EXCEPT ![i + 1] = @ - 1, ![i + 2] = @ - 1], i + 2)

\* the loop "for i in range(2, len(state))", from index i on
RECURSIVE MergeDups(_, _)
MergeDups(st, i) ==
    IF i >= Len(st) THEN <<>>
    ELSE (IF st[i + 1] < 2 THEN <<>> ELSE <<MergeDup(st, i)>>)
         \o MergeDups(st, i + 1)

\* MergeConss with "range(len(state) - 2)": the last pair is never tried
RECURSIVE MergeConssShort(_, _)
MergeConssShort(st, i) ==
    IF i >= Len(st) - 2 THEN <<>>
    ELSE (IF ~(st[i + 1] # 0 /\ st[i + 2] # 0) THEN <<>>
          ELSE <<[st EXCEPT ![i + 1] = @ - 1, ![i + 2] = @ - 1, ![i + 3] = @ + 1]>>)
         \o MergeConssShort(st, i + 1)

\* the loop "for i in range(len(state) - 1)", from index i on
RECURSIVE MergeConss(_, _)
MergeConss(st, i) ==
    IF i >= Len(st) - 1 THEN <<>>
    ELSE (IF ~(st[i + 1] # 0 /\ st[i + 2] # 0) THEN <<>> ELSE <<MergeCons(st, i)>>)
         \o MergeConss(st, i + 1)

\* evolve with the merge duplicates loop started at index 1, where it fires
\* the 2+2=1+3 rule a second time
evolveLoopFrom1(st) ==
    (IF st[1] >= 2 THEN <<AddOne([st EXCEPT ![1] = @ - 2], 1)>> ELSE <<>>)
    \o (IF Len(st) >= 2 /\ st[2] >= 2
        THEN <<AddOne([st EXCEPT ![2] = @ - 2, ![1] = @ + 1], 2)>> ELSE <<>>)
    \o (IF Len(st) >= 2 /\ st[2] >= 2
        THEN <<AddOne([st EXCEPT ![2] = @ - 2, ![1] = @ + 1], 2)>> ELSE <<>>)
    \o MergeDups(st, 2)
    \o MergeConss(st, 0)

\* the successors in the order the generator yields them
evolve(st) ==
    (IF st[1] >= 2 THEN <<CarryUp(st)>> ELSE <<>>)
    \o (IF Len(st) >= 2 /\ st[2] >= 2 THEN <<ReSplit(st)>> ELSE <<>>)
    \o MergeDups(st, 2)
    \o MergeConss(st, 0)

\* ---- show and parse ----

\* a text is a sequence of characters, a character is its code point
Tab == 9
Blank == 32
Plus == 43
Minus == 45
Zero == 48
Underscore == 95
LetterX == 120

\* the characters str.isspace holds of: strip removes them and split
\* separates at them
Whitespace ==
    {9, 10, 11, 12, 13, 28, 29, 30, 31, 32, 133, 160, 5760}
    \cup (8192..8202) \cup {8232, 8233, 8239, 8287, 12288}

\* the digit zero of every script int reads; its digits 1 to 9 follow it
ZeroCodes ==
    {48, 1632, 1776, 1984, 2406, 2534, 2662, 2790, 2918, 3046, 3174, 3302,
     3430, 3558, 3664, 3792, 3872, 4160, 4240, 6112, 6160, 6470, 6608, 6784,
     6800, 6992, 7088, 7232, 7248, 42528, 43216, 43264, 43472, 43504, 43600,
     44016, 65296, 66720, 68912, 69734, 69872, 69942, 70096, 70384, 70736,
     70864, 71248, 71360, 71472, 71904, 72016, 72784, 73040, 73120, 92768,
     92864, 93008, 120782, 120792, 120802, 120812, 120822, 123200, 123632,
     125264, 130032}

\* the value of the decimal digit ch, -1 when ch is no decimal digit
DigitOf(ch) ==
    IF \E z \in ZeroCodes : z <= ch /\ ch <= z + 9
    THEN ch - (CHOOSE z \in ZeroCodes : z <= ch /\ ch <= z + 9)
    ELSE -1

\* sys.int_info.default_max_str_digits: str raises ValueError on an integer
\* of more decimal digits than these, int on a text of more
int_max_str_digits == 4300

\* the decimal digits of k >= 0
RECURSIVE Decimal(_)
Decimal(k) ==
    IF k < 10 THEN <<Zero + k>>
    ELSE Decimal(k \div 10) \o <<Zero + (k % 10)>>

\* the call str(k) of an integer k: the sign and the digits, ValueError when
\* the digits are more than int_max_str_digits
Str(k) ==
    LET digits == Decimal(IF k < 0 THEN -k ELSE k) IN
    IF Len(digits) > int_max_str_digits
    THEN [raised |-> "ValueError", value |-> <<>>]
    ELSE [raised |-> "none",
          value |-> IF k < 0 THEN <<Minus>> \o digits ELSE digits]

\* "sep.join(tokens)"
RECURSIVE Join(_, _)
Join(tokens, sep) ==
    IF tokens = <<>> THEN <<>>
    ELSE IF Len(tokens) = 1 THEN tokens[1]
    ELSE tokens[1] \o sep \o Join(Tail(tokens), sep)

\* count \div 2^63, in steps a 32-bit integer holds
Shift63(count) == (((count \div 65536) \div 65536) \div 65536) \div 32768

\* count is no C ssize_t: above sys.maxsize = 2^63 - 1 or below -2^63
NoSsize(count) == Shift63(count) >= 1 \/ Shift63(count) < -1

\* x count times, nothing when count <= 0
RECURSIVE Copies(_, _)
Copies(x, count) == IF count <= 0 THEN <<>> ELSE <<x>> \o Copies(x, count - 1)

\* Repeat that yields x once whatever the count
RepeatOnce(x, count) ==
    IF NoSsize(count) THEN [raised |-> "OverflowError", value |-> <<>>]
    ELSE [raised |-> "none", value |-> IF count <= 0 THEN <<>> ELSE <<x>>]

\* Repeat(x, count) is it.repeat(x, count): OverflowError for a count that
\* is no ssize_t, else x count times
Repeat(x, count) ==
    IF NoSsize(count) THEN [raised |-> "OverflowError", value |-> <<>>]
    ELSE [raised |-> "none", value |-> Copies(x, count)]

\* the tokens show joins: "it.repeat(str(fibonacci(i)), count)" is called
\* for each index from i on before anything is joined; the cache is the one
\* the calls of fibonacci leave, up to the index at which str or repeat
\* raises
RECURSIVE ShowTokens(_, _, _)
ShowTokens(fc, st, i) ==
    IF i >= Len(st) THEN [raised |-> "none", tokens |-> <<>>, fib |-> fc]
    ELSE LET r == fibonacciCall(fc, i)
             t == Str(r.value)
             copies == Repeat(t.value, st[i + 1])
             rest == ShowTokens(r.fib, st, i + 1)
         IN  IF t.raised # "none"
             THEN [raised |-> t.raised, tokens |-> <<>>, fib |-> r.fib]
             ELSE IF copies.raised # "none"
             THEN [raised |-> copies.raised, tokens |-> <<>>, fib |-> r.fib]
             ELSE IF rest.raised # "none" THEN rest
             ELSE [raised |-> "none",
                   tokens |-> copies.value \o rest.tokens,
                   fib |-> rest.fib]

\* the call show(st) on the cache fc
show(fc, st) ==
    LET r == ShowTokens(fc, st, 0) IN
    [raised |-> r.raised,
     value |-> IF r.raised # "none" THEN <<>> ELSE Join(r.tokens, <<Blank>>),
     fib |-> r.fib]

\* "text.strip()": the text without the whitespace at its two ends
RECURSIVE Strip(_)
Strip(text) ==
    IF text = <<>> THEN <<>>
    ELSE IF Head(text) \in Whitespace THEN Strip(Tail(text))
    ELSE IF text[Len(text)] \in Whitespace
    THEN Strip(SubSeq(text, 1, Len(text) - 1))
    ELSE text

\* "text.split()": the maximal runs of characters other than whitespace,
\* from the places they start at to the places they end at
TokenStarts(text) ==
    {k \in 1..Len(text) :
        text[k] \notin Whitespace /\ (k = 1 \/ text[k - 1] \in Whitespace)}

TokenEnds(text) ==
    {k \in 1..Len(text) :
        text[k] \notin Whitespace /\ (k = Len(text) \/ text[k + 1] \in Whitespace)}

\* the j-th smallest place of a set of places
Nth(places, j) ==
    CHOOSE k \in places : Cardinality({x \in places : x <= k}) = j

SplitText(text) ==
    [j \in 1..Cardinality(TokenStarts(text)) |->
        SubSeq(text, Nth(TokenStarts(text), j), Nth(TokenEnds(text), j))]

\* "move.strip().split()"
Split(text) == SplitText(Strip(text))

\* the number of the decimal digits of body
DigitCount(body) == Cardinality({k \in 1..Len(body) : DigitOf(body[k]) >= 0})

\* int(token) accepts, of a token without whitespace, an optional sign
\* followed by at most int_max_str_digits decimal digits of any script with
\* single underscores between
IsIntToken(token) ==
    /\ token # <<>>
    /\ LET body == IF token[1] \in {Minus, Plus} THEN Tail(token) ELSE token IN
       /\ body # <<>>
       /\ DigitOf(body[1]) >= 0
       /\ DigitOf(body[Len(body)]) >= 0
       /\ \A k \in 1..Len(body) : DigitOf(body[k]) >= 0 \/ body[k] = Underscore
       /\ \A k \in 1..(Len(body) - 1) :
            ~(body[k] = Underscore /\ body[k + 1] = Underscore)
       /\ DigitCount(body) <= int_max_str_digits

\* the number the digits of body are, underscores passed over
RECURSIVE DigitsValue(_)
DigitsValue(body) ==
    IF body = <<>> THEN 0
    ELSE IF body[Len(body)] = Underscore
    THEN DigitsValue(SubSeq(body, 1, Len(body) - 1))
    ELSE 10 * DigitsValue(SubSeq(body, 1, Len(body) - 1))
         + DigitOf(body[Len(body)])

\* int(token) of a token int accepts
ToInt(token) ==
    IF token[1] = Minus THEN -DigitsValue(Tail(token))
    ELSE IF token[1] = Plus THEN DigitsValue(Tail(token))
    ELSE DigitsValue(token)

\* "while i >= len(state): state.append(0)"
RECURSIVE Pad(_, _)
Pad(st, i) == IF i >= Len(st) THEN Pad(Append(st, 0), i) ELSE st

\* ParseLoop that goes on to the next value after an unknown one
RECURSIVE ParseLoopSkipsUnknown(_, _, _)
ParseLoopSkipsUnknown(c, tokens, st) ==
    IF tokens = <<>>
    THEN [raised |-> "none", value |-> st,
          fib |-> c.fib, index |-> c.index, best |-> c.best]
    ELSE IF ~IsIntToken(Head(tokens))
    THEN [raised |-> "ValueError", value |-> <<>>,
          fib |-> c.fib, index |-> c.index, best |-> c.best]
    ELSE LET r == indexCall(c, ToInt(Head(tokens))) IN
         IF r.value = -1
         THEN ParseLoopSkipsUnknown(r, Tail(tokens), st)
         ELSE ParseLoopSkipsUnknown(r, Tail(tokens),
                    [Pad(st, r.value) EXCEPT ![r.value + 1] = @ + 1])

\* the loop "for n in map(int, ...)" over the tokens still to come: int is
\* applied to a token when the loop reaches it
RECURSIVE ParseLoop(_, _, _)
ParseLoop(c, tokens, st) ==
    IF tokens = <<>>
    THEN [raised |-> "none", value |-> st,
          fib |-> c.fib, index |-> c.index, best |-> c.best]
    ELSE IF ~IsIntToken(Head(tokens))
    THEN [raised |-> "ValueError", value |-> <<>>,
          fib |-> c.fib, index |-> c.index, best |-> c.best]
    ELSE LET r == indexCall(c, ToInt(Head(tokens))) IN
         IF r.value = -1
         THEN [raised |-> "none", value |-> <<>>,
               fib |-> r.fib, index |-> r.index, best |-> r.best]
         ELSE ParseLoop(r, Tail(tokens),
                        [Pad(st, r.value) EXCEPT ![r.value + 1] = @ + 1])

\* the call parse(text) on the caches c
parse(c, text) == ParseLoop(c, Split(text), <<>>)

\* ---- generate ----

\* GenLoop with the "child in graph" test before the append: an edge to a
\* state already known is not recorded
RECURSIVE GenLoopSkipKnown(_, _, _, _)
GenLoopSkipKnown(g, opts, st, cs) ==
    IF cs = <<>> THEN [graph |-> g, options |-> opts]
    ELSE LET child == Head(cs)
             g1 == [g EXCEPT ![st] = Append(@, child)]
         IN  IF child \in DOMAIN g
             THEN GenLoopSkipKnown(g, opts, st, Tail(cs))
             ELSE IF final(child)
             THEN GenLoopSkipKnown(g1, opts, st, Tail(cs))
             ELSE GenLoopSkipKnown(g1 @@ (child :> <<>>), Append(opts, child),
                                   st, Tail(cs))

\* GenLoop without the "final(child)" test: a terminal child gets a key
RECURSIVE GenLoopKeepFinal(_, _, _, _)
GenLoopKeepFinal(g, opts, st, cs) ==
    IF cs = <<>> THEN [graph |-> g, options |-> opts]
    ELSE LET child == Head(cs)
             g1 == [g EXCEPT ![st] = Append(@, child)]
         IN  IF child \in DOMAIN g1
             THEN GenLoopKeepFinal(g1, opts, st, Tail(cs))
             ELSE GenLoopKeepFinal(g1 @@ (child :> <<>>), Append(opts, child),
                                   st, Tail(cs))

\* GenLoop without the "child in graph" test: a known child is reset and
\* pushed again
RECURSIVE GenLoopPushesKnown(_, _, _, _)
GenLoopPushesKnown(g, opts, st, cs) ==
    IF cs = <<>> THEN [graph |-> g, options |-> opts]
    ELSE LET child == Head(cs)
             g1 == [g EXCEPT ![st] = Append(@, child)]
         IN  IF final(child)
             THEN GenLoopPushesKnown(g1, opts, st, Tail(cs))
             ELSE GenLoopPushesKnown(
                    [x \in DOMAIN g1 \cup {child} |-> IF x = child THEN <<>> ELSE g1[x]],
                    Append(opts, child), st, Tail(cs))

\* the body of "for child in evolve(state)" over the children cs still to come
RECURSIVE GenLoop(_, _, _, _)
GenLoop(g, opts, st, cs) ==
    IF cs = <<>> THEN [graph |-> g, options |-> opts]
    ELSE LET child == Head(cs)
             g1 == [g EXCEPT ![st] = Append(@, child)]
         IN  IF final(child) \/ child \in DOMAIN g1
             THEN GenLoop(g1, opts, st, Tail(cs))
             ELSE GenLoop(g1 @@ (child :> <<>>), Append(opts, child), st, Tail(cs))

Init ==
    /\ n \in 1..MaxN
    /\ pc = "generate"
    /\ graph = (<<n>> :> <<>>)
    /\ options = <<<<n>>>>
    /\ strategy = <<>>
    /\ state = <<n>>
    /\ move = <<>>
    /\ announced = FALSE
    /\ outcome = "none"
    /\ mark = <<>>
    /\ moved = FALSE
    /\ succs = <<>>
    /\ isFinal = FALSE
    /\ replies = 0
    /\ fibCache = <<1, 2>>
    /\ indexCache = (1 :> 0)
    /\ best = 1
    /\ op = "none"
    /\ arg = 0
    /\ result = [raised |-> "none", value |-> 0]

\* one iteration of "while options": pop a state and record its successors
GenStep ==
    /\ pc = "generate"
    /\ options # <<>>
    /\ LET st == options[Len(options)]
           r == GenLoop(graph, SubSeq(options, 1, Len(options) - 1), st, evolve(st))
       IN  /\ graph' = r.graph
           /\ options' = r.options
    /\ UNCHANGED <<n, pc, strategy, state, move, announced, outcome,
                   mark, moved, succs, isFinal>>
    /\ UNCHANGED <<replies, caches, codec>>

\* "return graph", and strategize is called with it
GenReturn ==
    /\ pc = "generate"
    /\ options = <<>>
    /\ pc' = "strategize"
    /\ UNCHANGED <<n, graph, options, strategy, state, move, announced, outcome,
                   mark, moved, succs, isFinal>>
    /\ UNCHANGED <<replies, caches, codec>>

\* ---- strategize ----

\* the nodes graphlib.TopologicalSorter(graph) knows: the keys and every
\* element of a value (it adds the predecessors it is given as nodes)
Nodes(g) == DOMAIN g \cup UNION {Range(g[s]) : s \in DOMAIN g}

\* the nodes static_order() must yield before x: the elements of graph[x]
Before(g, x) == IF x \in DOMAIN g THEN Range(g[x]) ELSE {}

\* Moves with the "not" dropped: the successors with a non-empty list
MovesNonEmpty(g, strat, st) == SelectSeq(g[st], LAMBDA child : strat[child] # <<>>)

\* Moves without the filter: every successor counts as a good reply
MovesAll(g, strat, st) == g[st]

\* "[child for child in graph[state] if not strategy[child]]"
Moves(g, strat, st) == SelectSeq(g[st], LAMBDA child : strat[child] = <<>>)

\* the nodes a topological order can hold, found by taking again and again
\* the nodes that have all they come after
RECURSIVE Ordered(_, _)
Ordered(g, done) ==
    LET ready == {x \in Nodes(g) \ done : Before(g, x) \subseteq done} IN
    IF ready = {} THEN done ELSE Ordered(g, done \cup ready)

\* static_order() finds a cycle: some node is in no topological order
HasCycle(g) == Ordered(g, {}) # Nodes(g)

\* "strategy = {next(order): []}": static_order() raises CycleError at the
\* first next when the graph has a cycle; next raises StopIteration when
\* the graph has no node; otherwise the first state of the order is entered
StratFirst ==
    /\ pc = "strategize"
    /\ DOMAIN strategy = {}
    /\ IF HasCycle(graph)
       THEN strategy' = strategy /\ pc' = "CycleError"
       ELSE IF Nodes(graph) = {}
       THEN strategy' = strategy /\ pc' = "StopIteration"
       ELSE \E x \in Nodes(graph) :
                /\ Before(graph, x) = {}
                /\ strategy' = (x :> <<>>)
                /\ pc' = pc
    /\ UNCHANGED <<n, graph, options, state, move, announced, outcome,
                   mark, moved, succs, isFinal>>
    /\ UNCHANGED <<replies, caches, codec>>

\* one iteration of "for state in order": the next state of a topological order
StratStep ==
    /\ pc = "strategize"
    /\ DOMAIN strategy # {}
    /\ \E x \in Nodes(graph) \ DOMAIN strategy :
        /\ Before(graph, x) \subseteq DOMAIN strategy
        /\ IF x \in DOMAIN graph
           THEN /\ strategy' = strategy @@ (x :> Moves(graph, strategy, x))
                /\ pc' = pc
           ELSE /\ strategy' = strategy
                /\ pc' = "KeyError"
    /\ UNCHANGED <<n, graph, options, state, move, announced, outcome,
                   mark, moved, succs, isFinal>>
    /\ UNCHANGED <<replies, caches, codec>>

\* the order is exhausted: "return strategy"
StratReturn ==
    /\ pc = "strategize"
    /\ DOMAIN strategy # {}
    /\ Nodes(graph) \subseteq DOMAIN strategy
    /\ pc' = "interact"
    /\ UNCHANGED <<n, graph, options, strategy, state, move, announced, outcome,
                   mark, moved, succs, isFinal>>
    /\ UNCHANGED <<replies, caches, codec>>

\* ---- interact ----

\* "state = (n,)" and the notice printed when strategy[state] is non-empty
InteractStart ==
    /\ pc = "interact"
    /\ state' = <<n>>
    /\ announced' = (strategy[<<n>>] # <<>>)
    /\ pc' = "turn"
    /\ UNCHANGED <<n, graph, options, strategy, move, outcome,
                   mark, moved, succs, isFinal>>
    /\ UNCHANGED <<replies, caches, codec>>

\* "if final(state): print('ha! i win!'); return"
Win ==
    /\ pc = "turn"
    /\ final(state)
    /\ outcome' = "i win"
    /\ pc' = "done"
    /\ UNCHANGED <<n, graph, options, strategy, state, move, announced,
                   mark, moved, succs, isFinal>>
    /\ UNCHANGED <<replies, caches, codec>>

\* the moves offered: zip(string.ascii_lowercase, graph[state])
Offered(g, st) == SubSeq(g[st], 1, Min(26, Len(g[st])))

\* show(st) for each of the states sts in turn, up to the first that raises
RECURSIVE ShowAll(_, _)
ShowAll(fc, sts) ==
    IF sts = <<>> THEN [raised |-> "none", fib |-> fc]
    ELSE LET r == show(fc, Head(sts)) IN
         IF r.raised # "none" THEN [raised |-> r.raised, fib |-> r.fib]
         ELSE ShowAll(r.fib, Tail(sts))

\* interact goes on to the place next, or is left by the exception of r
Shown(r, next) ==
    /\ fibCache' = r.fib
    /\ pc' = (IF r.raised # "none" THEN "raised" ELSE next)
    /\ outcome' = (IF r.raised # "none" THEN r.raised ELSE outcome)

\* "if len(moves) == 1": the state and the only move are shown and the
\* move is taken, no key is asked for
OnlyMove ==
    /\ pc = "turn"
    /\ ~final(state)
    /\ Len(Offered(graph, state)) = 1
    /\ LET r == show(fibCache, state) IN
       IF r.raised # "none"
       THEN move' = move /\ Shown(r, "respond")
       ELSE /\ move' = Offered(graph, state)[1]
            /\ Shown(show(r.fib, Offered(graph, state)[1]), "respond")
    /\ UNCHANGED <<n, graph, options, strategy, state, announced,
                   mark, moved, succs, isFinal>>
    /\ UNCHANGED <<replies, indexCache, best, codec>>

\* the else branch up to the first input(): the state and the moves offered
\* are shown, then the program waits for a line
OfferMoves ==
    /\ pc = "turn"
    /\ ~final(state)
    /\ Len(Offered(graph, state)) # 1
    /\ Shown(ShowAll(fibCache, <<state>> \o Offered(graph, state)), "input")
    /\ UNCHANGED <<n, graph, options, strategy, state, move, announced,
                   mark, moved, succs, isFinal>>
    /\ UNCHANGED <<replies, indexCache, best, codec>>

\* string.ascii_lowercase
ascii_lowercase == [k \in 1..26 |-> 96 + k]

\* the lines the human types: each lowercase letter, the empty line, "A",
\* " a", "b" followed by a tab, and "ab"
Lines ==
    {<<ascii_lowercase[k]>> : k \in 1..26}
    \cup {<<>>, <<65>>, <<Blank, 97>>, <<98, Tab>>, <<97, 98>>}

\* the place of key among the keys of moves, 0 when it is none of them
KeyIndex(key, count) ==
    IF \E k \in 1..count : key = <<ascii_lowercase[k]>>
    THEN CHOOSE k \in 1..count : key = <<ascii_lowercase[k]>>
    ELSE 0

\* "key := input(...).strip()": a line is typed; a key of moves chooses its
\* move, after any other line the program waits for the next one
HumanMove ==
    /\ pc = "input"
    /\ \E line \in Lines :
        LET k == KeyIndex(Strip(line), Len(Offered(graph, state))) IN
        IF k # 0
        THEN move' = Offered(graph, state)[k] /\ pc' = "respond"
        ELSE move' = move /\ pc' = "input"
    /\ UNCHANGED <<n, graph, options, strategy, state, announced, outcome,
                   mark, moved, succs, isFinal>>
    /\ UNCHANGED <<replies, caches, codec>>

\* input() raises EOFError when the input has ended: interact does not return
InputEOF ==
    /\ pc = "input"
    /\ outcome' = "EOFError"
    /\ pc' = "raised"
    /\ UNCHANGED <<n, graph, options, strategy, state, move, announced,
                   mark, moved, succs, isFinal>>
    /\ UNCHANGED <<replies, caches, codec>>

\* "if not responses: print('i surrender!'); return"
Surrender ==
    /\ pc = "respond"
    /\ strategy[move] = <<>>
    /\ outcome' = "i surrender"
    /\ pc' = "done"
    /\ UNCHANGED <<n, graph, options, strategy, state, move, announced,
                   mark, moved, succs, isFinal>>
    /\ UNCHANGED <<replies, caches, codec>>

\* "state = random.choice(responses)" and the reply is shown
Reply ==
    /\ pc = "respond"
    /\ strategy[move] # <<>>
    /\ \E k \in 1..Len(strategy[move]) : state' = strategy[move][k]
    /\ Shown(show(fibCache, state'), "turn")
    /\ replies' = replies + 1
    /\ UNCHANGED <<n, graph, options, strategy, move, announced,
                   mark, moved, succs, isFinal>>
    /\ UNCHANGED <<indexCache, best, codec>>

Next ==
    \/ GenStep
    \/ GenReturn
    \/ StratFirst
    \/ StratStep
    \/ StratReturn
    \/ InteractStart
    \/ Win
    \/ OnlyMove
    \/ OfferMoves
    \/ HumanMove
    \/ InputEOF
    \/ Surrender
    \/ Reply

Spec == Init /\ [][Next]_vars

\* ---- LiveSpec: the program with its loops running ----

\* generate is sequential code: a loop iteration that can run does run
LiveSpec == Init /\ [][Next]_vars /\ WF_vars(GenStep) /\ WF_vars(GenReturn)

\* ---- PlaySpec: the plays of the game ----

PlayInit ==
    /\ n \in 1..MaxN
    /\ pc = "play"
    /\ state = <<n>>
    /\ mark = <<>>
    /\ moved = FALSE
    /\ graph = <<>>
    /\ options = <<>>
    /\ strategy = <<>>
    /\ move = <<>>
    /\ announced = FALSE
    /\ outcome = "none"
    /\ succs = <<>>
    /\ isFinal = FALSE
    /\ replies = 0
    /\ fibCache = <<1, 2>>
    /\ indexCache = (1 :> 0)
    /\ best = 1
    /\ op = "none"
    /\ arg = 0
    /\ result = [raised |-> "none", value |-> 0]

\* one move: any of the successors evolve yields
PlayMove ==
    /\ pc = "play"
    /\ \E k \in 1..Len(evolve(state)) : state' = evolve(state)[k]
    /\ moved' = (mark # <<>>)
    /\ UNCHANGED <<n, pc, graph, options, strategy, move, announced, outcome,
                   mark, succs, isFinal>>
    /\ UNCHANGED <<replies, caches, codec>>

\* remember the current state, once in a play
Remember ==
    /\ pc = "play"
    /\ mark = <<>>
    /\ mark' = state
    /\ moved' = FALSE
    /\ UNCHANGED <<n, pc, graph, options, strategy, state, move, announced, outcome,
                   succs, isFinal>>
    /\ UNCHANGED <<replies, caches, codec>>

PlayNext == PlayMove \/ Remember

PlaySpec == PlayInit /\ [][PlayNext]_vars /\ WF_vars(PlayMove)

\* ---- RuleSpec: final and evolve on an arbitrary state ----

\* the sequences of length 1..MaxLen of counts 0..MaxCount
States == UNION {[1..len -> 0..MaxCount] : len \in 1..MaxLen}

RuleInit ==
    /\ state \in States
    /\ pc = "call"
    /\ succs = <<>>
    /\ isFinal = FALSE
    /\ n = Value(state)
    /\ graph = <<>>
    /\ options = <<>>
    /\ strategy = <<>>
    /\ move = <<>>
    /\ announced = FALSE
    /\ outcome = "none"
    /\ mark = <<>>
    /\ moved = FALSE
    /\ replies = 0
    /\ fibCache = <<1, 2>>
    /\ indexCache = (1 :> 0)
    /\ best = 1
    /\ op = "none"
    /\ arg = 0
    /\ result = [raised |-> "none", value |-> 0]

\* call final(state) and list(evolve(state))
RuleApply ==
    /\ pc = "call"
    /\ succs' = evolve(state)
    /\ isFinal' = final(state)
    /\ pc' = "returned"
    /\ UNCHANGED <<n, graph, options, strategy, state, move, announced, outcome,
                   mark, moved>>
    /\ UNCHANGED <<replies, caches, codec>>

RuleNext == RuleApply

RuleSpec == RuleInit /\ [][RuleNext]_vars

\* ---- CodecSpec: the base sequence, show and parse ----

\* the states reachable from (k,), k in 1..MaxN
RECURSIVE Closure(_, _)
Closure(seen, frontier) ==
    IF frontier = {} THEN seen
    ELSE LET new == UNION {Range(evolve(s)) : s \in frontier} \ seen
         IN  Closure(seen \cup new, new)

Reachable == Closure({<<k>> : k \in 1..MaxN}, {<<k>> : k \in 1..MaxN})

\* the states the plays from (13,) and (14,) end in, with a value of two
\* digits
FarStates == {<<0, 0, 0, 0, 0, 1>>, <<1, 0, 0, 0, 0, 1>>}

\* the states show is called with
ShowStates == Reachable \cup FarStates \cup States

\* the arguments of fibonacci and of fibonacci_index
FibArgs == (-3)..MaxIndexArg
IndexArgs == (-1)..MaxValue

\* the tokens of a move text: small integers, a two-digit base value, and
\* a token int does not accept
Tokens == {Str(v).value : v \in ((-1)..MaxValue) \cup {13}} \cup {<<LetterX>>}

\* the tokens of the longest texts: two base values and a value that is none
LongTokens == {Str(1).value, Str(3).value, Str(4).value}

\* tokens of other digits: "1_3", "+2", an Arabic-Indic 3, a fullwidth 1,
\* and "1__3", "_1", "1_" and "-", which int does not accept
OddTokens ==
    {<<Zero + 1, Underscore, Zero + 3>>, <<Plus, Zero + 2>>, <<1632 + 3>>,
     <<65296 + 1>>, <<Zero + 1, Underscore, Underscore, Zero + 3>>,
     <<Underscore, Zero + 1>>, <<Zero + 1, Underscore>>, <<Minus>>}

\* the sequences of at most len tokens of the set toks
RECURSIVE TokenSeqs(_, _)
TokenSeqs(toks, len) ==
    IF len = 0 THEN {<<>>}
    ELSE TokenSeqs(toks, len - 1)
         \cup {Append(ts, t) : ts \in {x \in TokenSeqs(toks, len - 1) : Len(x) = len - 1},
                               t \in toks}

\* the move texts: tokens joined by one blank, up to MaxTokens - 1 of any
\* tokens or MaxTokens of the long ones; one token between blanks; two long
\* tokens with a tab, a line feed or an em space between; an odd token
\* after a long one
Texts ==
    {Join(ts, <<Blank>>) : ts \in TokenSeqs(Tokens, MaxTokens - 1)}
    \cup {Join(ts, <<Blank>>) : ts \in TokenSeqs(LongTokens, MaxTokens)}
    \cup {<<Blank>> \o Join(ts, <<Blank>>) \o <<Blank, Blank>> : ts \in TokenSeqs(Tokens, 1)}
    \cup {t1 \o <<sep>> \o t2 : t1 \in LongTokens, t2 \in LongTokens,
                               sep \in {Tab, 10, 8195}}
    \cup {t1 \o <<Blank>> \o t2 : t1 \in LongTokens, t2 \in OddTokens}

CodecInit ==
    /\ pc = "codec"
    /\ fibCache = <<1, 2>>
    /\ indexCache = (1 :> 0)
    /\ best = 1
    /\ op = "none"
    /\ arg = 0
    /\ result = [raised |-> "none", value |-> 0]
    /\ n = 0
    /\ graph = <<>>
    /\ options = <<>>
    /\ strategy = <<>>
    /\ state = <<>>
    /\ move = <<>>
    /\ announced = FALSE
    /\ outcome = "none"
    /\ mark = <<>>
    /\ moved = FALSE
    /\ succs = <<>>
    /\ isFinal = FALSE
    /\ replies = 0

\* the two caches as the record the calls take
Caches == [fib |-> fibCache, index |-> indexCache, best |-> best]

\* the call o(a) returned r and left the caches of r
Called(o, a, r) ==
    /\ pc = "codec"
    /\ pc' = "codec-returned"
    /\ op' = o
    /\ arg' = a
    /\ result' = [raised |-> r.raised, value |-> r.value]
    /\ fibCache' = r.fib
    /\ indexCache' = r.index
    /\ best' = r.best
    /\ UNCHANGED <<n, graph, options, strategy, state, move, announced, outcome,
                   mark, moved, succs, isFinal, replies>>

\* r of a call that has no use of the index cache
WithIndex(r) ==
    [raised |-> r.raised, value |-> r.value, fib |-> r.fib,
     index |-> indexCache, best |-> best]

\* fibonacci(k)
CallFibonacci ==
    \E k \in FibArgs : Called("fibonacci", k, WithIndex(fibonacciCall(fibCache, k)))

\* fibonacci_index(v)
CallFibonacciIndex ==
    \E v \in IndexArgs : Called("fibonacci_index", v, indexCall(Caches, v))

\* fibonacci_index(fibonacci(i))
CallIndexOfFibonacci ==
    \E i \in 0..MaxIndexArg :
        LET r == fibonacciCall(fibCache, i) IN
        Called("fibonacci_index(fibonacci)", i,
               indexCall([fib |-> r.fib, index |-> indexCache, best |-> best],
                         r.value))

\* show(st)
CallShow ==
    \E st \in ShowStates : Called("show", st, WithIndex(show(fibCache, st)))

\* evaluate(st)
CallEvaluate ==
    \E st \in ShowStates : Called("evaluate", st, WithIndex(evaluate(fibCache, st)))

\* parse(text)
CallParse ==
    \E text \in Texts : Called("parse", text, parse(Caches, text))

\* parse(show(st)), where show may raise
CallParseShow ==
    \E st \in ShowStates :
        LET r == show(fibCache, st) IN
        Called("parse(show)", st,
               IF r.raised # "none" THEN WithIndex(r)
               ELSE parse([fib |-> r.fib, index |-> indexCache, best |-> best],
                          r.value))

\* show(parse(text)), where parse may raise
CallShowParse ==
    \E text \in Texts :
        LET r == parse(Caches, text) IN
        Called("show(parse)", text,
               IF r.raised # "none" THEN r
               ELSE LET r2 == show(r.fib, r.value) IN
                    [raised |-> r2.raised, value |-> r2.value, fib |-> r2.fib,
                     index |-> r.index, best |-> r.best])

\* the caller takes the result
CodecReturn ==
    /\ pc = "codec-returned"
    /\ op # "none"
    /\ pc' = "codec"
    /\ op' = "none"
    /\ arg' = 0
    /\ result' = [raised |-> "none", value |-> 0]
    /\ UNCHANGED <<n, graph, options, strategy, state, move, announced, outcome,
                   mark, moved, succs, isFinal, replies, caches>>

CodecNext ==
    \/ CallFibonacci
    \/ CallFibonacciIndex
    \/ CallIndexOfFibonacci
    \/ CallShow
    \/ CallEvaluate
    \/ CallParse
    \/ CallParseShow
    \/ CallShowParse
    \/ CodecReturn

CodecSpec == CodecInit /\ [][CodecNext]_vars

\* ---- properties ----

\* generate has returned
Generated == pc \in {"strategize", "interact", "turn", "input", "respond", "done", "raised"}

\* strategize has returned and the session runs
InSession == pc \in {"turn", "input", "respond", "done", "raised"}

\* C1. Value invariance: every key of the graph has value n and every
\* successor recorded for it has the same value as the key.
C1_ValueInvariance ==
    \A s \in DOMAIN graph :
        /\ Value(s) = n
        /\ \A k \in 1..Len(graph[s]) : Value(graph[s][k]) = Value(s)

\* a key of value n with a merge duplicates successor beside another
C1_Witness ==
    /\ Generated
    /\ \E s \in DOMAIN graph :
        /\ Len(graph[s]) >= 2
        /\ \E i \in 2..(Len(s) - 1) : s[i + 1] >= 2 /\ MergeDup(s, i) \in Range(graph[s])

\* C2. Acyclicity: in a play from (n,), a state that was remembered is never
\* the current state again once a move has been made from it.
C2_Acyclic == (mark # <<>> /\ moved) => state # mark

\* a play that went from a remembered non-initial state on to the terminal state
C2_Witness ==
    /\ pc = "play"
    /\ mark # <<>>
    /\ mark # <<n>>
    /\ moved
    /\ final(state)

\* C3. Terminal iff no moves: final(state) is true exactly when evolve(state)
\* yields nothing.
C3_FinalIffNoMoves == pc = "returned" => (isFinal <=> succs = <<>>)

\* a terminal state with two occupied indices, and no successor
C3_Witness ==
    /\ pc = "returned"
    /\ state = <<1, 0, 1>>
    /\ isFinal
    /\ succs = <<>>

\* C4. Strategy consistency: every element of strategy[s] is a successor of s
\* with an empty list; if strategy[s] is empty and s has successors, each of
\* them has a non-empty list; a state without successors has an empty list.
C4_StrategyConsistency ==
    \A s \in DOMAIN strategy :
        /\ \A x \in Range(strategy[s]) :
            x \in Range(evolve(s)) /\ strategy[x] = <<>>
        /\ (strategy[s] = <<>> /\ evolve(s) # <<>>)
            => \A t \in Range(evolve(s)) : strategy[t] # <<>>
        /\ evolve(s) = <<>> => strategy[s] = <<>>

\* the finished table holds a state with a good reply and a non-terminal
\* state without one
C4_Witness ==
    /\ pc = "interact"
    /\ \E s \in DOMAIN strategy : strategy[s] # <<>>
    /\ \E s \in DOMAIN strategy : strategy[s] = <<>> /\ evolve(s) # <<>>

\* the rule firings of a state, as <<rule, index>>
Firings(s) ==
    (IF s[1] >= 2 THEN {<<"carry-up", 0>>} ELSE {})
    \cup (IF Len(s) >= 2 /\ s[2] >= 2 THEN {<<"re-split", 1>>} ELSE {})
    \cup {<<"merge-duplicate", i>> : i \in {j \in 2..(Len(s) - 1) : s[j + 1] >= 2}}
    \cup {<<"merge-consecutive", i>> :
            i \in {j \in 0..(Len(s) - 2) : s[j + 1] >= 1 /\ s[j + 2] >= 1}}

\* what a firing takes from (negative) and gives to (positive) the index j
Delta(f, j) ==
    CASE f[1] = "carry-up" -> IF j = 0 THEN -2 ELSE IF j = 1 THEN 1 ELSE 0
      [] f[1] = "re-split" -> IF j = 1 THEN -2 ELSE IF j \in {0, 2} THEN 1 ELSE 0
      [] f[1] = "merge-duplicate" ->
            IF j = f[2] THEN -2 ELSE IF j \in {f[2] - 2, f[2] + 1} THEN 1 ELSE 0
      [] f[1] = "merge-consecutive" ->
            IF j \in {f[2], f[2] + 1} THEN -1 ELSE IF j = f[2] + 2 THEN 1 ELSE 0

\* the highest index a firing gives to
Top(f) ==
    CASE f[1] = "carry-up" -> 1
      [] f[1] = "re-split" -> 2
      [] f[1] = "merge-duplicate" -> f[2] + 1
      [] f[1] = "merge-consecutive" -> f[2] + 2

\* the state a firing leads to
Fired(s, f) ==
    [k \in 1..(IF Top(f) + 1 > Len(s) THEN Top(f) + 1 ELSE Len(s)) |->
        (IF k <= Len(s) THEN s[k] ELSE 0) + Delta(f, k - 1)]

\* C5. Graph completeness: once generate has returned, (n,) and every
\* non-terminal state a firing leads to from a key are keys, and the list of
\* a key holds the state of each of its rule firings, one entry per firing.
C5_GraphComplete ==
    Generated =>
        /\ <<n>> \in DOMAIN graph
        /\ \A s \in DOMAIN graph :
            /\ Len(graph[s]) = Cardinality(Firings(s))
            /\ \A f \in Firings(s) :
                /\ Cardinality({k \in 1..Len(graph[s]) : graph[s][k] = Fired(s, f)}) = 1
                /\ final(Fired(s, f)) \/ Fired(s, f) \in DOMAIN graph

\* a returned graph in which two keys lead to the same non-terminal state
C5_Witness ==
    /\ Generated
    /\ \E s, t \in DOMAIN graph :
        /\ s # t
        /\ \E x \in Range(graph[s]) \cap Range(graph[t]) : x \in DOMAIN graph

\* C6, as claimed: once generate has returned, every terminal state of the
\* graph is a key with an empty successor list.
C6_TerminalIsKey ==
    Generated =>
        \A t \in Nodes(graph) : final(t) => (t \in DOMAIN graph /\ graph[t] = <<>>)

\* C6, amended: once generate has returned, a terminal state of the graph is
\* a key only if it is the starting state (n,), and then its successor list
\* is empty; a terminal state reached by a move is in successor lists only.
C6_TerminalKeyOnlyStart ==
    Generated =>
        \A t \in Nodes(graph) :
            final(t) => /\ (t \in DOMAIN graph <=> t = <<n>>)
                        /\ t \in DOMAIN graph => graph[t] = <<>>

\* a returned graph whose terminal state is a successor and not a key
C6_Witness ==
    /\ Generated
    /\ \E s \in DOMAIN graph : \E t \in Range(graph[s]) :
        final(t) /\ t \notin DOMAIN graph

\* the player to move from s wins under perfect play when the player who
\* cannot move loses
RECURSIVE MoverWins(_)
MoverWins(s) == \E t \in Range(evolve(s)) : ~MoverWins(t)

\* C7. Starting classification: the notice is printed exactly when
\* strategy[(n,)] is non-empty, and when it is non-empty the first mover
\* loses: the first mover has no winning play and the program does not
\* surrender.
C7_StartingClassification ==
    InSession =>
        /\ announced <=> strategy[<<n>>] # <<>>
        /\ strategy[<<n>>] # <<>> => (~MoverWins(<<n>>) /\ outcome # "i surrender")

\* the greatest index whose base value is at most v
MaxIndex(v) == CHOOSE i \in 0..v : fibonacci(i) <= v /\ fibonacci(i + 1) > v

\* the indices of the greedy decomposition of v
RECURSIVE ZeckendorfIndices(_)
ZeckendorfIndices(v) ==
    IF v = 0 THEN {}
    ELSE {MaxIndex(v)} \cup ZeckendorfIndices(v - fibonacci(MaxIndex(v)))

\* the Zeckendorf form of v >= 1 as a state
Zeckendorf(v) ==
    [k \in 1..(MaxIndex(v) + 1) |-> IF (k - 1) \in ZeckendorfIndices(v) THEN 1 ELSE 0]

\* C8. Every play ends in Zeckendorf form: every play from (n,) comes to a
\* terminal state of value n, the Zeckendorf form of n, whatever moves are made.
C8_PlayEndsInZeckendorf ==
    <>(final(state) /\ evolve(state) = <<>> /\ Value(state) = n
       /\ state = Zeckendorf(n))

\* a play that ended in a terminal state with two occupied indices
C8_Witness ==
    /\ pc = "play"
    /\ final(state)
    /\ state = Zeckendorf(n)
    /\ Cardinality({k \in 1..Len(state) : state[k] # 0}) = 2

\* C9. State shape: every state of the graph has length >= 1, counts >= 0
\* and a non-zero last entry, and no successor is shorter than its key.
C9_StateShape ==
    /\ \A s \in Nodes(graph) :
        /\ Len(s) >= 1
        /\ \A k \in 1..Len(s) : s[k] >= 0
        /\ s[Len(s)] # 0
    /\ \A s \in DOMAIN graph : \A k \in 1..Len(graph[s]) : Len(graph[s][k]) >= Len(s)

\* a move that used up the last entry of a state and extended it by one
C9_Witness ==
    \E s \in DOMAIN graph : \E k \in 1..Len(graph[s]) :
        /\ Len(s) >= 2
        /\ s[Len(s)] = 1
        /\ Len(graph[s][k]) = Len(s) + 1
        /\ graph[s][k][Len(s)] = 0

\* C10. Distinct moves give distinct states: the successors evolve yields
\* for one state are pairwise distinct.
C10_DistinctSuccessors ==
    pc = "returned" =>
        \A j, k \in 1..Len(succs) : j # k => succs[j] # succs[k]

\* a state on which all four rules fire, five firings in all
C10_Witness ==
    /\ pc = "returned"
    /\ state = <<2, 2, 2>>
    /\ Len(succs) = 5

\* the sum over i of i * st[i]
RECURSIVE IndexWeightFrom(_, _)
IndexWeightFrom(st, i) ==
    IF i >= Len(st) THEN 0 ELSE i * st[i + 1] + IndexWeightFrom(st, i + 1)

IndexWeight(st) == IndexWeightFrom(st, 0)

\* C11, as claimed: every successor recorded in the graph has a strictly
\* greater index weight than its key.
C11_IndexWeightIncreases ==
    \A s \in DOMAIN graph : \A k \in 1..Len(graph[s]) :
        IndexWeight(graph[s][k]) > IndexWeight(s)

\* the change of the index weight a firing makes
WeightChange(f) ==
    CASE f[1] = "carry-up" -> 1
      [] f[1] = "re-split" -> 0
      [] f[1] = "merge-duplicate" -> -1
      [] f[1] = "merge-consecutive" -> 1 - f[2]

\* C11, amended: the index weight rises by 1 on carry-up and on
\* merge-consecutive at index 0, is unchanged by re-split and by
\* merge-consecutive at index 1, falls by 1 on merge-duplicate and by i - 1
\* on merge-consecutive at index i >= 2; so it never rises by more than 1.
C11_IndexWeightChange ==
    \A s \in DOMAIN graph : \A k \in 1..Len(graph[s]) :
        \E f \in Firings(s) :
            /\ Fired(s, f) = graph[s][k]
            /\ IndexWeight(graph[s][k]) = IndexWeight(s) + WeightChange(f)

\* a key with a re-split successor of equal index weight and a key with a
\* merge-consecutive successor of smaller index weight
C11_Witness ==
    /\ \E s \in DOMAIN graph :
        /\ Len(s) >= 2 /\ s[2] >= 2
        /\ ReSplit(s) \in Range(graph[s])
        /\ IndexWeight(ReSplit(s)) = IndexWeight(s)
    /\ \E s \in DOMAIN graph : \E i \in 2..(Len(s) - 2) :
        /\ s[i + 1] >= 1 /\ s[i + 2] >= 1
        /\ MergeCons(s, i) \in Range(graph[s])
        /\ IndexWeight(MergeCons(s, i)) < IndexWeight(s)

\* the total number of units of a state
RECURSIVE UnitsFrom(_, _)
UnitsFrom(st, i) == IF i >= Len(st) THEN 0 ELSE st[i + 1] + UnitsFrom(st, i + 1)

Units(st) == UnitsFrom(st, 0)

\* the maximum occupied index of a state with a unit
MaxOccupied(st) == CHOOSE i \in 0..(Len(st) - 1) :
    st[i + 1] # 0 /\ \A j \in (i + 1)..(Len(st) - 1) : st[j + 1] = 0

\* the pair (unit count, minus maximum occupied index) of t is
\* lexicographically below that of s
PairBelow(t, s) ==
    \/ Units(t) < Units(s)
    \/ Units(t) = Units(s) /\ -MaxOccupied(t) < -MaxOccupied(s)

\* C12, as claimed: on every edge of the graph the pair strictly decreases;
\* carry-up, merge-duplicate and merge-consecutive reduce the unit count and
\* re-split keeps it and strictly increases the maximum occupied index.
C12_PairDecreases ==
    \A s \in DOMAIN graph : \A k \in 1..Len(graph[s]) :
        \E f \in Firings(s) :
            LET t == graph[s][k] IN
            /\ Fired(s, f) = t
            /\ PairBelow(t, s)
            /\ f[1] # "re-split" => Units(t) < Units(s)
            /\ f[1] = "re-split" =>
                (Units(t) = Units(s) /\ MaxOccupied(t) > MaxOccupied(s))

\* C12, amended: carry-up and merge-consecutive reduce the unit count by one;
\* re-split and merge-duplicate keep the unit count and never lower the
\* maximum occupied index, raising it exactly when they fire at the maximum
\* occupied index; so the pair never increases, and it stays the same when
\* re-split or merge-duplicate fires below the maximum occupied index.
C12_PairNeverIncreases ==
    \A s \in DOMAIN graph : \A k \in 1..Len(graph[s]) :
        \E f \in Firings(s) :
            LET t == graph[s][k] IN
            /\ Fired(s, f) = t
            /\ f[1] \in {"carry-up", "merge-consecutive"} => Units(t) = Units(s) - 1
            /\ f[1] \in {"re-split", "merge-duplicate"} =>
                /\ Units(t) = Units(s)
                /\ MaxOccupied(t) >= MaxOccupied(s)
                /\ MaxOccupied(t) > MaxOccupied(s) <=> f[2] = MaxOccupied(s)

\* a key whose re-split successor has the same pair, and a key whose
\* merge-duplicate successor has the same pair
C12_Witness ==
    /\ \E s \in DOMAIN graph :
        /\ Len(s) >= 3 /\ s[2] >= 2
        /\ ReSplit(s) \in Range(graph[s])
        /\ Units(ReSplit(s)) = Units(s)
        /\ MaxOccupied(ReSplit(s)) = MaxOccupied(s)
    /\ \E s \in DOMAIN graph : \E i \in 2..(Len(s) - 1) :
        /\ s[i + 1] >= 2
        /\ MergeDup(s, i) \in Range(graph[s])
        /\ Units(MergeDup(s, i)) = Units(s)
        /\ MaxOccupied(MergeDup(s, i)) = MaxOccupied(s)

\* v is a value of the base sequence
IsBaseValue(v) == v >= 1 /\ \E i \in 0..v : fibonacci(i) = v

\* the index of a base value
BaseIndex(v) == CHOOSE i \in 0..v : fibonacci(i) = v

\* a call of CodecSpec has returned
Returned(o) == pc = "codec-returned" /\ op = o

\* C13. Index round-trip: whatever calls came before, a call of
\* fibonacci_index(fibonacci(i)) returns i, and no call shortens a cache or
\* changes an entry of one.
C13_IndexRoundTrip ==
    [][/\ Len(fibCache') >= Len(fibCache)
       /\ \A k \in 1..Len(fibCache) : fibCache'[k] = fibCache[k]
       /\ DOMAIN indexCache \subseteq DOMAIN indexCache'
       /\ \A v \in DOMAIN indexCache : indexCache'[v] = indexCache[v]
       /\ (pc' = "codec-returned" /\ op' = "fibonacci_index(fibonacci)")
            => (result'.raised = "none" /\ result'.value = arg')]_vars

\* a round trip for an index the caches were grown beyond by earlier calls
C13_Witness ==
    /\ Returned("fibonacci_index(fibonacci)")
    /\ arg = 2
    /\ result.value = 2
    /\ Len(fibCache) >= 5
    /\ best >= 8

\* the integer values of the tokens of a text whose tokens int accepts
Values(text) == [k \in 1..Len(Split(text)) |-> ToInt(Split(text)[k])]

AllInt(text) == \A k \in 1..Len(Split(text)) : IsIntToken(Split(text)[k])

\* C14. Invalid value in a move: fibonacci_index(v) returns -1 and raises
\* nothing for every v that is not a base value, and parse of a text of
\* integers with such a value among them returns the empty tuple.
C14_InvalidValue ==
    /\ (Returned("fibonacci_index") /\ ~IsBaseValue(arg))
        => (result.raised = "none" /\ result.value = -1)
    /\ (Returned("parse") /\ AllInt(arg)
            /\ \E k \in 1..Len(Values(arg)) : ~IsBaseValue(Values(arg)[k]))
        => (result.raised = "none" /\ result.value = <<>>)

\* a parse of three values, the last of them not a base value
C14_Witness ==
    /\ Returned("parse")
    /\ AllInt(arg)
    /\ Len(Values(arg)) = 3
    /\ IsBaseValue(Values(arg)[1])
    /\ IsBaseValue(Values(arg)[2])
    /\ ~IsBaseValue(Values(arg)[3])
    /\ result.value = <<>>

\* C15. Malformed move text: parse of a text with a token that is not an
\* integer returns the empty tuple and raises nothing.
C15_MalformedText ==
    (Returned("parse") /\ ~AllInt(arg))
        => (result.raised = "none" /\ result.value = <<>>)

\* the number of the values of a text that are equal to v
Occurrences(text, v) == Cardinality({k \in 1..Len(Values(text)) : Values(text)[k] = v})

\* show renders st: no base value it asks str for has more than
\* int_max_str_digits digits, and every count is a C ssize_t
Renders(st) ==
    /\ \A i \in 0..(Len(st) - 1) :
            Len(Decimal(fibonacci(i))) <= int_max_str_digits
    /\ \A i \in 1..Len(st) : ~NoSsize(st[i])

Strategized == pc \in {"interact", "turn", "input", "respond", "done", "raised"}

\* the states reachable from (k,)
ReachableFrom(k) == Closure({<<k>>}, {<<k>>})

\* the graph and the strategy table as functions of the starting value
CanonGraph(k) ==
    [s \in {x \in ReachableFrom(k) : x = <<k>> \/ ~final(x)} |-> evolve(s)]

CanonStrategy(k) ==
    [s \in ReachableFrom(k) |-> SelectSeq(evolve(s), LAMBDA t : ~MoverWins(t))]

C18_ExplorationTerminates ==
    /\ <>(Generated /\ options = <<>>)
    /\ [](/\ \A j, k \in 1..Len(options) : j # k => options[j] # options[k]
          /\ \A k \in 1..Len(options) :
                options[k] \in DOMAIN graph /\ graph[options[k]] = <<>>)
    /\ [][\A s \in DOMAIN graph :
            graph[s] # <<>> => (s \in DOMAIN graph' /\ graph'[s] = graph[s])]_vars

\* generate returned a graph in which a state with a filled list is the
\* successor of three keys
C18_Witness ==
    /\ pc = "strategize"
    /\ options = <<>>
    /\ \E x \in DOMAIN graph :
        /\ graph[x] # <<>>
        /\ Cardinality({s \in DOMAIN graph : x \in Range(graph[s])}) >= 3

\* C19. Solver ordering: no lookup of strategize misses; the first state
\* entered in the table is terminal, every other state entered is a key of
\* the graph, a state is entered only when all its successors are, and the
\* table returned has an entry for every state of the graph, the terminal
\* state among them.
C19_SolverOrdering ==
    /\ pc # "KeyError"
    /\ Cardinality(DOMAIN strategy) = 1 =>
        \A t \in DOMAIN strategy : final(t) /\ evolve(t) = <<>>
    /\ \A s \in DOMAIN strategy :
        /\ ~final(s) => s \in DOMAIN graph
        /\ Range(evolve(s)) \subseteq DOMAIN strategy
    /\ Strategized =>
        /\ DOMAIN strategy = Nodes(graph)
        /\ \E t \in DOMAIN strategy : final(t)

\* strategize returned a table with the terminal state, which is no key,
\* and five or more keys
C19_Witness ==
    /\ pc = "interact"
    /\ \E t \in DOMAIN strategy : final(t) /\ t \notin DOMAIN graph
    /\ Cardinality(DOMAIN strategy \cap DOMAIN graph) >= 5

\* C20. Session outcome: the program surrenders only before its first reply;
\* after a reply the human faces a state with an empty strategy list, each
\* move offered has a non-empty one, and interact returns only with the
\* program winning on a terminal state (an EOFError of input() leaves
\* interact without a return); graph[state] is looked up for non-terminal
\* states only, which are keys.
C20_SessionOutcome ==
    InSession =>
        /\ outcome = "i surrender" => replies = 0
        /\ outcome = "i win" => final(state)
        /\ pc \in {"input", "respond", "raised"}
            => (~final(state) /\ state \in DOMAIN graph)
        /\ (pc = "turn" /\ ~final(state)) => state \in DOMAIN graph
        /\ replies >= 1 =>
            /\ strategy[state] = <<>>
            /\ pc = "done" => outcome = "i win"
            /\ ~final(state) =>
                \A k \in 1..Len(Offered(graph, state)) :
                    strategy[Offered(graph, state)[k]] # <<>>

\* a session the program won after two replies
C20_Witness ==
    /\ pc = "done"
    /\ outcome = "i win"
    /\ replies >= 2
    /\ final(state)

====
